---- MODULE Spec2Model ----
(***************************************************************************)
(* Verification model of The-Book-Of-Andy.                                 *)
(*                                                                         *)
(*   Spec      : main() of run-transcription.py, the loop over the feed    *)
(*               entries.                                                  *)
(*   SpecTws   : transcribe_with_speakers() of run-transcription.py (and   *)
(*               scripts/slimfile.py): alignment, speaker labels, gap      *)
(*               lines, sort.                                              *)
(*   SpecEmbed : search-app/services/embedder/embed_new.py, the script     *)
(*               that chunks transcripts, embeds and batch-uploads them.   *)
(*   SpecChunk : chunk_words() of embed_new.py as a generator, for any     *)
(*               chunk_size and overlap.                                   *)
(*   SpecChunkFair : SpecChunk with a consumer that never stops calling    *)
(*               next(), for termination.                                  *)
(*   SpecFix   : apply_corrections() of run-transcription.py (and          *)
(*               scripts/helpers.py).                                      *)
(*                                                                         *)
(* Each specification leaves the variables of the others at rest.          *)
(*                                                                         *)
(* Strings whose characters matter (file names, titles, document ids) are  *)
(* sequences of one-character strings.  A text is the sequence of its      *)
(* words with an explicit " " token where a blank stands.                  *)
(***************************************************************************)
EXTENDS Integers, Sequences, FiniteSets, TLC

VARIABLES
    \* ---- embed_new.py ----
    txt_files,           \* sorted(glob("*.txt")): <<[filename, words, json_lens]>>
    index_docs,          \* ids of the documents of interest held by the "transcripts" index
    index_other,         \* number of further documents held by the index
    index_start,         \* index_docs when this run of the script started
    existing_ids,        \* embed_new.py:93
    fetch_ok,            \* get_documents returned every document of the index
    file_i,              \* position of "for path in txt_files"
    gen,                 \* the chunk_words generator of the current file
    chunk_idx,           \* embed_new.py:116
    batch,               \* embed_new.py:103
    batch_bytes,         \* embed_new.py:104
    batch_no,            \* embed_new.py:105
    all_docs_for_debug,  \* embed_new.py:102
    add_calls,           \* the batches passed to index.add_documents in this run
    precomputed,         \* content of PRECOMPUTED_FILE
    run_no,              \* which invocation of the script this is
    pc_e,                \* position of the script
    \* ---- chunk_words called on its own ----
    cw_words, cw_chunk_size, cw_overlap, cw_gen, cw_out, cw_docs,
    \* ---- transcribe_with_speakers ----
    segments,            \* result["segments"] of model.transcribe
    diarization,         \* the turns of diarization.itertracks, in its order
    fill_gaps,           \* the fill_gaps argument
    futures,             \* the align_segment futures that have not completed
    aligned_segments,    \* run-transcription.py:102
    seg_i,               \* segments of result_aligned already labelled
    last_speaker,        \* run-transcription.py:145
    lines,               \* run-transcription.py:144
    transcript,          \* the lines of the returned text (<<>> before the return)
    pc_t,                \* position in transcribe_with_speakers
    \* ---- main() of run-transcription.py ----
    entries,             \* feed.entries
    diarize,             \* args.diarize.lower() == "on"
    transcripts,         \* the .txt files of outdir: path -> content
    audio_files,         \* the .mp3 and .wav files of outdir
    entry_i,             \* position of "for entry in feed.entries"
    transcript_m,        \* the local variable transcript of main()
    reached,             \* for each entry reached: what its transcript path held then
    events,              \* the steps main() has performed, in order
    pc_m,                \* position in main()
    \* ---- apply_corrections called on its own ----
    ac_arg,              \* the text passed to apply_corrections
    ac_text,             \* the local variable text
    ac_i,                \* items of COMMON_FIXES the for loop has done
    ac_pc                \* position in apply_corrections

embedVars == <<txt_files, index_docs, index_other, index_start, existing_ids, fetch_ok, file_i, gen,
               chunk_idx, batch, batch_bytes, batch_no, all_docs_for_debug, add_calls,
               precomputed, run_no, pc_e>>
chunkVars == <<cw_words, cw_chunk_size, cw_overlap, cw_gen, cw_out, cw_docs>>
twsVars == <<segments, diarization, fill_gaps, futures, aligned_segments, seg_i,
             last_speaker, lines, transcript, pc_t>>
mainVars == <<entries, diarize, transcripts, audio_files, entry_i, transcript_m, reached,
              events, pc_m>>
fixVars == <<ac_arg, ac_text, ac_i, ac_pc>>
vars == <<embedVars, chunkVars, twsVars, mainVars, fixVars>>

-----------------------------------------------------------------------------
(* Bounds of the model *)

MaxRuns == 2           \* invocations of embed_new.py in one behaviour
MaxWords == 5          \* words of a text handed to chunk_words on its own
MaxChunkSize == 3      \* chunk_size handed to chunk_words on its own
MaxOverlap == 3        \* overlap handed to chunk_words on its own
MaxSegments == 2       \* segments returned by model.transcribe
MaxTurns == 2          \* turns returned by the diarization pipeline
TicksPerSecond == 2    \* resolution of the model's time stamps
MaxEntries == 2        \* entries of the RSS feed
MaxPieces == 2         \* pieces of which a text handed to apply_corrections is made

\* embed_new.py:22 sets 500; the model runs the same loop with a cap small
\* enough for a batch to fill up.
MAX_BATCH_DOCS == 2

-----------------------------------------------------------------------------
(* Program constants of embed_new.py *)

CHUNK_SIZE == 200
OVERLAP_SIZE == 20
MAX_BATCH_BYTES == 80 * 1024 * 1024
GET_DOCUMENTS_LIMIT == 10000

-----------------------------------------------------------------------------
(* Generic helpers *)

Min(a, b) == IF a < b THEN a ELSE b
Max(a, b) == IF a > b THEN a ELSE b

Chars(str) ==
    CASE str = "a b" -> <<"a", " ", "b">>
      [] str = "a_b" -> <<"a", "_", "b">>
      [] str = "Ep 1" -> <<"E", "p", " ", "1">>
      [] str = "Ep/1" -> <<"E", "p", "/", "1">>
      [] str = ".txt" -> <<".", "t", "x", "t">>
      [] str = "_chunk" -> <<"_", "c", "h", "u", "n", "k">>

Digit(d) == <<"0", "1", "2", "3", "4", "5", "6", "7", "8", "9">>[d + 1]

\* str(n) for n >= 0
RECURSIVE Str(_)
Str(n) == IF n < 10 THEN <<Digit(n)>> ELSE Str(n \div 10) \o <<Digit(n % 10)>>

-----------------------------------------------------------------------------
(* embed_new.py: utilities *)

IdChars ==
    {"a","b","c","d","e","f","g","h","i","j","k","l","m","n","o","p","q","r","s","t",
     "u","v","w","x","y","z",
     "A","B","C","D","E","F","G","H","I","J","K","L","M","N","O","P","Q","R","S","T",
     "U","V","W","X","Y","Z",
     "0","1","2","3","4","5","6","7","8","9","_","-"}

\* re.sub(r"[^a-zA-Z0-9_-]", "_", s)
sanitize_id(s) == [i \in DOMAIN s |-> IF s[i] \in IdChars THEN s[i] ELSE "_"]

\* " ".join(ws)
Join(ws) ==
    IF Len(ws) = 0 THEN <<>>
    ELSE [i \in 1..(2 * Len(ws) - 1) |-> IF i % 2 = 1 THEN ws[(i + 1) \div 2] ELSE " "]

\* words[start:end] for start, end >= 0: a slice ends where the list ends
Slice(ws, start, end) == SubSeq(ws, Min(start, Len(ws)) + 1, Min(end, Len(ws)))

\* os.path.splitext(filename)[0]: the name up to its last dot, unless that
\* dot is preceded by dots only
splitext_root(name) ==
    LET dots == {i \in DOMAIN name : name[i] = "."} IN
    IF dots = {} THEN name
    ELSE LET d == CHOOSE i \in dots : \A j \in dots : j <= i IN
         IF \E k \in 1..(d - 1) : name[k] # "." THEN SubSeq(name, 1, d - 1) ELSE name

\* chunk_words as a generator object: "created" before the first next(),
\* "suspended" at its yield with the local start, "finished" once it returned.
NewGen == [state |-> "created", start |-> 0]

chunk_step_no_overlap(chunk_size, overlap) == Max(1, chunk_size)

chunk_step_unguarded(chunk_size, overlap) == Max(0, chunk_size - overlap)

\* embed_new.py:73
chunk_step(chunk_size, overlap) == Max(1, chunk_size - overlap)

chunk_end_unclamped(g, words, chunk_size) == g.start + chunk_size

\* embed_new.py:75
chunk_end(g, words, chunk_size) == Min(g.start + chunk_size, Len(words))

\* next(generator): runs the generator body up to its next yield or its end
chunk_words_next(g, words, chunk_size, overlap) ==
    LET n == Len(words)
        loop(start) == IF start < n THEN [state |-> "suspended", start |-> start]
                       ELSE [state |-> "finished", start |-> start]
    IN  CASE g.state = "created" -> loop(0)
          [] g.state = "suspended" ->
                IF chunk_end(g, words, chunk_size) = n
                THEN [state |-> "finished", start |-> g.start]
                ELSE loop(g.start + chunk_step(chunk_size, overlap))
          [] OTHER -> g

\* the tuple yielded by a suspended generator
chunk_yield(g, words, chunk_size) ==
    <<g.start, chunk_end(g, words, chunk_size),
      Join(Slice(words, g.start, chunk_end(g, words, chunk_size)))>>

\* len(json.dumps(doc)): the document carries the length of its serialization,
\* which the embedding returned by the sentence-transformers model decides
approx_json_size(doc) == doc.json_len

make_doc_id(safe_base_id, idx) == safe_base_id \o Chars("_chunk") \o Str(idx)

\* embed_new.py:130-138
make_doc(doc_id, filename, idx, chunk, json_len) ==
    [id |-> doc_id, file |-> filename, chunk_index |-> idx,
     word_start |-> chunk[1], word_end |-> chunk[2], text |-> chunk[3],
     json_len |-> json_len]

\* embed_new.py:143
will_exceed_bytes(bytes, doc_bytes) == (bytes + doc_bytes + 1) > MAX_BATCH_BYTES

will_exceed_count_late(b) == Len(b) > MAX_BATCH_DOCS

\* embed_new.py:144
will_exceed_count(b) == (Len(b) + 1) > MAX_BATCH_DOCS

already_present_never(doc_id, ids) == FALSE

\* embed_new.py:122
already_present(doc_id, ids) == doc_id \in ids

\* flush_batch(batch, index, which): the calls of index.add_documents after it
flush_batch(b, calls) == IF b = <<>> THEN calls ELSE Append(calls, b)

json_dump_append(old, docs) == old \o docs

\* embed_new.py:165-166: open(PRECOMPUTED_FILE, "w") and json.dump(docs, f);
\* old is what the file held
json_dump(old, docs) == docs

BatchIds(b) == {b[i].id : i \in DOMAIN b}

\* index.add_documents(batch) on an index with primary key "id"
add_documents(b, docs) == docs \cup BatchIds(b)

-----------------------------------------------------------------------------
(* embed_new.py: inputs *)

\* names of transcript files, without ".txt", in the order sorted() gives them
FileNames == <<"a b", "a_b">>

Word(i) == <<"w1", "w2", "w3", "w4", "w5">>[((i - 1) % 5) + 1]
Words(n) == [i \in 1..n |-> Word(i)]

\* len(text.split()) of the transcript files
FileWordCounts == {0, CHUNK_SIZE + 1}

\* len(json.dumps(doc)) of the documents: small, half a batch, more than a batch
DocJsonLens == {1000, MAX_BATCH_BYTES \div 2 - 2, MAX_BATCH_BYTES - 2}

\* ids the index may hold before the first run
PriorIds == {make_doc_id(Chars("a_b"), 0)}

RECURSIVE Ascending(_)
Ascending(S) ==
    IF S = {} THEN <<>>
    ELSE LET m == CHOOSE x \in S : \A y \in S : x <= y IN <<m>> \o Ascending(S \ {m})

\* number of chunks chunk_words yields from generator state g on
RECURSIVE ChunksLeft(_, _, _, _)
ChunksLeft(g, words, chunk_size, overlap) ==
    LET h == chunk_words_next(g, words, chunk_size, overlap) IN
    IF h.state = "finished" THEN 0 ELSE 1 + ChunksLeft(h, words, chunk_size, overlap)

\* the contents a transcript file may have: its words and, for each of its
\* chunks, the length of the JSON serialization of the chunk's document
\* (the embedding model returns the same vector for the same text)
FileContents ==
    UNION { { [words |-> Words(n), json_lens |-> lens] :
              lens \in [1..ChunksLeft(NewGen, Words(n), CHUNK_SIZE, OVERLAP_SIZE)
                          -> DocJsonLens] }
          : n \in FileWordCounts }

\* the directory listings: at least one file (embed_new.py:31-33)
Listings ==
    UNION { LET idx == Ascending(S) IN
            { [k \in 1..Len(idx) |->
                  [filename |-> Chars(FileNames[idx[k]]) \o Chars(".txt"),
                   words |-> c[k].words, json_lens |-> c[k].json_lens]]
              : c \in [1..Len(idx) -> FileContents] }
          : S \in SUBSET (DOMAIN FileNames) \ {{}} }

-----------------------------------------------------------------------------
(* embed_new.py: the script *)

fixIdle == ac_arg = <<>> /\ ac_text = <<>> /\ ac_i = 0 /\ ac_pc = "idle"

mainIdle ==
    /\ entries = <<>> /\ diarize = FALSE /\ transcripts = <<>> /\ audio_files = {}
    /\ entry_i = 0 /\ transcript_m = <<>> /\ reached = <<>> /\ events = <<>>
    /\ pc_m = "idle"

twsIdle ==
    /\ segments = <<>> /\ diarization = <<>> /\ fill_gaps = FALSE /\ futures = {}
    /\ aligned_segments = <<>> /\ seg_i = 0 /\ last_speaker = "UNKNOWN"
    /\ lines = <<>> /\ transcript = <<>> /\ pc_t = "idle"

chunkIdle ==
    /\ cw_words = <<>> /\ cw_chunk_size = 1 /\ cw_overlap = 0
    /\ cw_gen = NewGen /\ cw_out = <<>> /\ cw_docs = <<>>

InitEmbed ==
    /\ txt_files \in Listings
    /\ index_docs \in SUBSET PriorIds
    /\ index_other \in {0, GET_DOCUMENTS_LIMIT}
    /\ index_start = index_docs
    /\ existing_ids = {}
    /\ fetch_ok = FALSE
    /\ file_i = 0
    /\ gen = NewGen
    /\ chunk_idx = 0
    /\ batch = <<>>
    /\ batch_bytes = 2
    /\ batch_no = 1
    /\ all_docs_for_debug = <<>>
    /\ add_calls = <<>>
    /\ precomputed = <<>>
    /\ run_no = 1
    /\ pc_e = "fetch"
    /\ chunkIdle
    /\ twsIdle
    /\ mainIdle
    /\ fixIdle

\* embed_new.py:93-99.  get_documents returns at most GET_DOCUMENTS_LIMIT
\* documents of the index, in an order the server chooses; a
\* MeilisearchApiError leaves existing_ids empty.
FetchExisting ==
    /\ pc_e = "fetch"
    /\ \/ /\ existing_ids' = {}
          /\ fetch_ok' = FALSE
       \/ \E got \in SUBSET index_docs :
             LET total == Cardinality(index_docs) + index_other
                 k == Min(GET_DOCUMENTS_LIMIT, total)
             IN /\ Cardinality(got) <= k
                /\ k - Cardinality(got) <= index_other
                /\ existing_ids' = got
                /\ fetch_ok' = (total <= GET_DOCUMENTS_LIMIT)
    /\ pc_e' = "files"
    /\ UNCHANGED <<txt_files, index_docs, index_other, index_start, file_i, gen, chunk_idx, batch,
                   batch_bytes, batch_no, all_docs_for_debug, add_calls, precomputed,
                   run_no, chunkVars, twsVars, mainVars, fixVars>>

\* embed_new.py:107-116
NextFile ==
    /\ pc_e = "files"
    /\ file_i < Len(txt_files)
    /\ file_i' = file_i + 1
    /\ gen' = NewGen
    /\ chunk_idx' = 0
    /\ pc_e' = "chunks"
    /\ UNCHANGED <<txt_files, index_docs, index_other, index_start, existing_ids, fetch_ok, batch,
                   batch_bytes, batch_no, all_docs_for_debug, add_calls, precomputed,
                   run_no, chunkVars, twsVars, mainVars, fixVars>>

CurFile == txt_files[file_i]
CurGen == chunk_words_next(gen, CurFile.words, CHUNK_SIZE, OVERLAP_SIZE)
CurDocId == make_doc_id(sanitize_id(splitext_root(CurFile.filename)), chunk_idx)

\* embed_new.py:118-124: a chunk whose id is in existing_ids
ChunkSkip ==
    /\ pc_e = "chunks"
    /\ CurGen.state = "suspended"
    /\ already_present(CurDocId, existing_ids)
    /\ gen' = CurGen
    /\ chunk_idx' = chunk_idx + 1
    /\ UNCHANGED <<txt_files, index_docs, index_other, index_start, existing_ids, fetch_ok, file_i,
                   batch, batch_bytes, batch_no, all_docs_for_debug, add_calls,
                   precomputed, run_no, pc_e, chunkVars, twsVars, mainVars, fixVars>>

\* embed_new.py:118-159: a chunk that is embedded and put into a batch
ChunkPrepare ==
    /\ pc_e = "chunks"
    /\ CurGen.state = "suspended"
    /\ ~already_present(CurDocId, existing_ids)
    /\ LET doc == make_doc(CurDocId, CurFile.filename, chunk_idx,
                             chunk_yield(CurGen, CurFile.words, CHUNK_SIZE),
                             CurFile.json_lens[chunk_idx + 1])
             doc_bytes == approx_json_size(doc)
             full == will_exceed_bytes(batch_bytes, doc_bytes) \/ will_exceed_count(batch)
         IN /\ add_calls' = IF full THEN flush_batch(batch, add_calls) ELSE add_calls
            /\ index_docs' = IF full THEN add_documents(batch, index_docs) ELSE index_docs
            /\ batch_no' = IF full THEN batch_no + 1 ELSE batch_no
            /\ batch' = Append(IF full THEN <<>> ELSE batch, doc)
            /\ batch_bytes' = (IF full THEN 2 ELSE batch_bytes) + doc_bytes + 1
            /\ all_docs_for_debug' = Append(all_docs_for_debug, doc)
    /\ gen' = CurGen
    /\ chunk_idx' = chunk_idx + 1
    /\ UNCHANGED <<txt_files, index_other, index_start, existing_ids, fetch_ok, file_i, precomputed,
                   run_no, pc_e, chunkVars, twsVars, mainVars, fixVars>>

\* embed_new.py:118: chunk_words has no further chunk
ChunkEnd ==
    /\ pc_e = "chunks"
    /\ CurGen.state = "finished"
    /\ gen' = CurGen
    /\ pc_e' = "files"
    /\ UNCHANGED <<txt_files, index_docs, index_other, index_start, existing_ids, fetch_ok, file_i,
                   chunk_idx, batch, batch_bytes, batch_no, all_docs_for_debug, add_calls,
                   precomputed, run_no, chunkVars, twsVars, mainVars, fixVars>>

\* embed_new.py:161-169
Finish ==
    /\ pc_e = "files"
    /\ file_i = Len(txt_files)
    /\ add_calls' = flush_batch(batch, add_calls)
    /\ index_docs' = add_documents(batch, index_docs)
    /\ precomputed' = json_dump(precomputed, all_docs_for_debug)
    /\ pc_e' = "done"
    /\ UNCHANGED <<txt_files, index_other, index_start, existing_ids, fetch_ok, file_i, gen, chunk_idx,
                   batch, batch_bytes, batch_no, all_docs_for_debug, run_no, chunkVars, twsVars, mainVars, fixVars>>

\* the script is started again on the same directory, index and PRECOMPUTED_FILE
Rerun ==
    /\ pc_e = "done"
    /\ run_no < MaxRuns
    /\ run_no' = run_no + 1
    /\ existing_ids' = {}
    /\ fetch_ok' = FALSE
    /\ file_i' = 0
    /\ gen' = NewGen
    /\ chunk_idx' = 0
    /\ batch' = <<>>
    /\ batch_bytes' = 2
    /\ batch_no' = 1
    /\ all_docs_for_debug' = <<>>
    /\ add_calls' = <<>>
    /\ pc_e' = "fetch"
    /\ index_start' = index_docs
    /\ UNCHANGED <<txt_files, index_docs, index_other, precomputed, chunkVars, twsVars, mainVars, fixVars>>

NextEmbed ==
    \/ FetchExisting
    \/ NextFile
    \/ ChunkSkip
    \/ ChunkPrepare
    \/ ChunkEnd
    \/ Finish
    \/ Rerun

SpecEmbed == InitEmbed /\ [][NextEmbed]_vars

-----------------------------------------------------------------------------
(* chunk_words(words, chunk_size, overlap) called on its own *)

embedIdle ==
    /\ txt_files = <<>> /\ index_docs = {} /\ index_other = 0 /\ index_start = {}
    /\ existing_ids = {} /\ fetch_ok = FALSE /\ file_i = 0 /\ gen = NewGen
    /\ chunk_idx = 0 /\ batch = <<>> /\ batch_bytes = 2 /\ batch_no = 1
    /\ all_docs_for_debug = <<>> /\ add_calls = <<>> /\ precomputed = <<>>
    /\ run_no = 1 /\ pc_e = "idle"

\* the texts of the script's own call chunk_words(words, CHUNK_SIZE, OVERLAP_SIZE)
LongWordCounts == {CHUNK_SIZE, CHUNK_SIZE + 1, 2 * CHUNK_SIZE - OVERLAP_SIZE + 1}

InitChunk ==
    /\ \/ /\ cw_words \in {Words(n) : n \in 0..MaxWords}
          /\ cw_chunk_size \in 1..MaxChunkSize
          /\ cw_overlap \in 0..MaxOverlap
       \/ /\ cw_words \in {Words(n) : n \in LongWordCounts}
          /\ cw_chunk_size = CHUNK_SIZE
          /\ cw_overlap = OVERLAP_SIZE
    /\ cw_gen = NewGen
    /\ cw_out = <<>>
    /\ cw_docs = <<>>
    /\ embedIdle
    /\ twsIdle
    /\ mainIdle
    /\ fixIdle

CwGen == chunk_words_next(cw_gen, cw_words, cw_chunk_size, cw_overlap)

\* the consumer's next() returns a chunk, of which it builds the document
CwYield ==
    /\ cw_gen.state # "finished"
    /\ CwGen.state = "suspended"
    /\ cw_gen' = CwGen
    /\ LET chunk == chunk_yield(CwGen, cw_words, cw_chunk_size) IN
         /\ cw_out' = Append(cw_out, chunk)
         /\ cw_docs' = Append(cw_docs,
                make_doc(make_doc_id(Chars("a_b"), Len(cw_out)),
                         Chars("a_b") \o Chars(".txt"), Len(cw_out), chunk, Len(chunk[3])))
    /\ UNCHANGED <<cw_words, cw_chunk_size, cw_overlap, embedVars, twsVars, mainVars, fixVars>>

\* the consumer's next() finds the generator exhausted
CwStop ==
    /\ cw_gen.state # "finished"
    /\ CwGen.state = "finished"
    /\ cw_gen' = CwGen
    /\ UNCHANGED <<cw_words, cw_chunk_size, cw_overlap, cw_out, cw_docs, embedVars, twsVars, mainVars, fixVars>>

NextChunk ==
    \/ CwYield
    \/ CwStop

SpecChunk == InitChunk /\ [][NextChunk]_vars

\* the consumer is a for loop: it calls next() until the generator is
\* exhausted, and neither side waits for anything
SpecChunkFair == InitChunk /\ [][NextChunk]_vars /\ WF_vars(NextChunk)

-----------------------------------------------------------------------------
(* run-transcription.py: transcribe_with_speakers *)

\* Time stamps are counted in ticks, TicksPerSecond of them per second.  The
\* model's time stamps include two that fall into the same second and two
\* between which the second, minute and hour fields of a formatted time change
\* (0:59:59, 0:59:59.5 and 1:00:00 at two ticks per second).
Ticks == {7198, 7199, 7200}

\* str(timedelta(seconds=int(seconds))) for less than a day: the fields of
\* "H:MM:SS"
format_time(t) ==
    LET sec == t \div TicksPerSecond IN <<sec \div 3600, (sec % 3600) \div 60, sec % 60>>

\* run-transcription.py:198-202: the start time parsed back from a line
line_start_time(line) == line.ts_start[1] * 3600 + line.ts_start[2] * 60 + line.ts_start[3]

IsSpace(tok) == tok = " "

\* str.strip() of a text given as its tokens
RECURSIVE strip(_)
strip(text) ==
    IF text = <<>> THEN text
    ELSE IF IsSpace(Head(text)) THEN strip(Tail(text))
    ELSE IF IsSpace(text[Len(text)]) THEN strip(SubSeq(text, 1, Len(text) - 1))
    ELSE text

overlaps_open(turn, start, end) == turn.start < end /\ turn.end > start

\* run-transcription.py:158
overlaps(turn, start, end) == turn.start <= end /\ turn.end >= start

\* run-transcription.py:156-160: the speaker of the first turn that overlaps,
\* "None" when the loop ends without a break
RECURSIVE find_speaker(_, _, _)
find_speaker(turns, start, end) ==
    IF turns = <<>> THEN "None"
    ELSE IF overlaps(Head(turns), start, end) THEN Head(turns).speaker
    ELSE find_speaker(Tail(turns), start, end)

label_speaker_unknown(found, last) == IF found = "None" THEN "UNKNOWN" ELSE found

\* run-transcription.py:162-170: the label of a segment, given the result of
\* the search for an overlapping turn and last_speaker
label_speaker(found, last) == IF found = "None" THEN last ELSE found

\* run-transcription.py:172.  src is not part of the printed line: it records
\* which aligned segment or which turn the line was printed for.
segment_line(start, end, speaker, text, k) ==
    [ts_start |-> format_time(start), ts_end |-> format_time(end),
     speaker |-> speaker, text |-> text, src |-> [kind |-> "seg", i |-> k]]

\* run-transcription.py:190-193
gap_line(turn, j) ==
    [ts_start |-> format_time(turn.start), ts_end |-> format_time(turn.end),
     speaker |-> turn.speaker, text |-> <<"[no Whisper transcript - diarization only]">>,
     src |-> [kind |-> "turn", i |-> j]]

is_gap_open(turn, segs) ==
    /\ ~(turn.end < segs[1].start \/ turn.start > segs[Len(segs)].end)
    /\ ~\E i \in DOMAIN segs : segs[i].start < turn.end /\ segs[i].end > turn.start

\* run-transcription.py:183-189: the turn gets a placeholder line
is_gap(turn, segs) ==
    /\ ~(turn.end < segs[1].start \/ turn.start > segs[Len(segs)].end)
    /\ ~\E i \in DOMAIN segs : segs[i].start <= turn.end /\ segs[i].end >= turn.start

\* run-transcription.py:182-195
RECURSIVE gap_lines(_, _, _)
gap_lines(turns, j, segs) ==
    IF j > Len(turns) THEN <<>>
    ELSE (IF is_gap(turns[j], segs) THEN <<gap_line(turns[j], j)>> ELSE <<>>)
         \o gap_lines(turns, j + 1, segs)

\* list.sort(key=...) is stable: an element goes behind those whose key is
\* not greater
RECURSIVE insert_sorted(_, _)
insert_sorted(sorted, x) ==
    IF sorted = <<>> THEN <<x>>
    ELSE IF line_start_time(sorted[Len(sorted)]) <= line_start_time(x)
         THEN Append(sorted, x)
         ELSE Append(insert_sorted(SubSeq(sorted, 1, Len(sorted) - 1), x),
                     sorted[Len(sorted)])

RECURSIVE sort_prefix(_, _)
sort_prefix(ls, n) ==
    IF n = 0 THEN <<>> ELSE insert_sorted(sort_prefix(ls, n - 1), ls[n])

sort_lines_unsorted(ls) == ls

\* run-transcription.py:206
sort_lines(ls) == sort_prefix(ls, Len(ls))

(* inputs *)

\* The function copies speaker labels and never compares them, so every turn
\* has a label of its own.
SpeakerNames == <<"SPEAKER_00", "SPEAKER_01", "SPEAKER_02">>

SentenceNames == <<<<"s11", "s12">>, <<"s21", "s22">>, <<"s31", "s32">>>>

\* the text Whisper gives the k-th segment: two sentences behind the leading
\* blank Whisper puts before a segment.  No segment text contains a phrase
\* of COMMON_FIXES, so that apply_corrections (line 210) leaves the joined
\* lines as they are; SpecFix has apply_corrections on its own.
SegmentText(k) == <<" ", SentenceNames[k][1], " ", SentenceNames[k][2]>>

Intervals == {iv \in Ticks \X Ticks : iv[1] <= iv[2]}

\* Whisper's segments follow each other in time
SegmentLists ==
    UNION { { [k \in 1..n |->
                  [start |-> iv[k][1], end |-> iv[k][2], text |-> SegmentText(k)]]
              : iv \in {f \in [1..n -> Intervals] :
                          \A k \in 1..(n - 1) : f[k][2] <= f[k + 1][1]} }
          : n \in 0..MaxSegments }

\* itertracks yields the turns by start time, then by end time; turns of
\* different speakers may overlap
TurnLists ==
    UNION { { [j \in 1..n |->
                  [start |-> iv[j][1], end |-> iv[j][2], speaker |-> SpeakerNames[j]]]
              : iv \in {f \in [1..n -> Intervals] :
                          \A j \in 1..(n - 1) :
                              \/ f[j][1] < f[j + 1][1]
                              \/ f[j][1] = f[j + 1][1] /\ f[j][2] <= f[j + 1][2]} }
          : n \in 0..MaxTurns }

Sentences(text) == SelectSeq(text, LAMBDA tok : ~IsSpace(tok))

\* result["segments"] of whisperx.align([seg], ...): the segment, with its
\* start kept or moved to a later time stamp, as one segment or as one segment
\* for each of its sentences
AlignResults(seg) ==
    LET refined == {iv \in Intervals : seg.start <= iv[1] /\ iv[2] = seg.end}
        sents == Sentences(seg.text)
    IN  { <<[start |-> iv[1], end |-> iv[2], text |-> seg.text]>> : iv \in refined }
        \cup
        { [n \in 1..Len(sents) |->
              [start |-> iv[1], end |-> iv[2], text |-> <<sents[n]>>]] : iv \in refined }

(* the function *)

InitTws ==
    /\ segments \in SegmentLists
    /\ diarization \in TurnLists
    /\ fill_gaps \in BOOLEAN
    /\ futures = DOMAIN segments
    /\ aligned_segments = <<>>
    /\ seg_i = 0
    /\ last_speaker = "UNKNOWN"
    /\ lines = <<>>
    /\ transcript = <<>>
    /\ pc_t = "align"
    /\ embedIdle
    /\ chunkIdle
    /\ mainIdle
    /\ fixIdle

\* run-transcription.py:105-117: as_completed hands over the result of one
\* more future; align_segment returned the first aligned segment
AlignCompleted ==
    /\ pc_t = "align"
    /\ \E i \in futures :
         \E result \in AlignResults(segments[i]) :
            /\ aligned_segments' = Append(aligned_segments, result[1])
            /\ futures' = futures \ {i}
    /\ UNCHANGED <<segments, diarization, fill_gaps, seg_i, last_speaker, lines,
                   transcript, pc_t, embedVars, chunkVars, mainVars, fixVars>>

\* run-transcription.py:149-172: one iteration over result_aligned["segments"]
LabelSegment ==
    /\ pc_t = "align"
    /\ futures = {}
    /\ seg_i < Len(aligned_segments)
    /\ LET seg == aligned_segments[seg_i + 1]
           found == find_speaker(diarization, seg.start, seg.end)
           speaker == label_speaker(found, last_speaker)
       IN /\ last_speaker' = IF found = "None" THEN last_speaker ELSE speaker
          /\ lines' = Append(lines,
                segment_line(seg.start, seg.end, speaker, strip(seg.text), seg_i + 1))
    /\ seg_i' = seg_i + 1
    /\ UNCHANGED <<segments, diarization, fill_gaps, futures, aligned_segments,
                   transcript, pc_t, embedVars, chunkVars, mainVars, fixVars>>

\* run-transcription.py:178-195; result["segments"][0] of an empty list
\* raises IndexError
FillGaps ==
    /\ pc_t = "align"
    /\ futures = {}
    /\ seg_i = Len(aligned_segments)
    /\ IF ~fill_gaps
       THEN /\ pc_t' = "sort"
            /\ lines' = lines
       ELSE IF segments = <<>>
       THEN /\ pc_t' = "raised"
            /\ lines' = lines
       ELSE /\ pc_t' = "sort"
            /\ lines' = lines \o gap_lines(diarization, 1, segments)
    /\ UNCHANGED <<segments, diarization, fill_gaps, futures, aligned_segments, seg_i,
                   last_speaker, transcript, embedVars, chunkVars, mainVars, fixVars>>

\* run-transcription.py:206-210
SortAndReturn ==
    /\ pc_t = "sort"
    /\ lines' = sort_lines(lines)
    /\ transcript' = sort_lines(lines)
    /\ pc_t' = "returned"
    /\ UNCHANGED <<segments, diarization, fill_gaps, futures, aligned_segments, seg_i,
                   last_speaker, embedVars, chunkVars, mainVars, fixVars>>

NextTws ==
    \/ AlignCompleted
    \/ LabelSegment
    \/ FillGaps
    \/ SortAndReturn

SpecTws == InitTws /\ [][NextTws]_vars

-----------------------------------------------------------------------------
(* run-transcription.py: main *)

\* a key the feed entry does not have
Absent == "<absent>"

\* hashlib.sha1(guid.encode()).hexdigest()[:12] of the guids of the model
hash_guid(guid) ==
    CASE guid = "guid-0001" -> "8d70e3cd8f40"
      [] guid = "https://example.org/ep/1" -> "7143f75f2edd"
      [] guid = "https://example.org/ep/2" -> "790b7fa1ad3a"

\* str.replace(old, new) for one-character old and new
replace_char(t, old, new) == [i \in DOMAIN t |-> IF t[i] = old THEN new ELSE t[i]]

entry_guid_link_first(entry) == IF entry.link \in {Absent, ""} THEN entry.id ELSE entry.link

\* run-transcription.py:255: entry.get("id") or entry.link
entry_guid(entry) == IF entry.id \in {Absent, ""} THEN entry.link ELSE entry.id

\* run-transcription.py:256
entry_title(entry) == replace_char(replace_char(entry.title, "/", "-"), " ", "_")

\* run-transcription.py:257: f"{hash_guid(guid)}_{title[:50]}".  The hash has
\* a fixed length, so the name is given by its two parts.
fname_base(entry) ==
    LET title == entry_title(entry) IN
    [id |-> hash_guid(entry_guid(entry)), title |-> SubSeq(title, 1, Min(50, Len(title)))]

path_exists_never(path, files) == FALSE

\* os.path.exists(txt_path)
path_exists(path, files) == path \in DOMAIN files

\* run-transcription.py:284-288: the lines written to the transcript file,
\* each as the literal the f-string starts with and the value that follows it
transcript_file(entry, text) ==
    << <<"# ", entry.title>>,
       <<"Date: ", IF entry.published = Absent THEN "unknown" ELSE entry.published>>,
       <<"GUID: ", entry_guid(entry)>>,
       <<"", "">>,
       <<"", text>> >>

\* the text the Whisper model returns for an audio, with or without speakers
transcribed(url, speakers) == [speech_of |-> url, speakers |-> speakers]

after_with_early_cleanup(step) ==
    CASE step = "download" -> "clean"
      [] step = "clean" -> "transcribe"
      [] step = "transcribe" -> "cleanup"
      [] step = "cleanup" -> "write"
      [] step = "write" -> "entry"

\* the statements of the loop body, run-transcription.py:264-294, in order
after(step) ==
    CASE step = "download" -> "clean"
      [] step = "clean" -> "transcribe"
      [] step = "transcribe" -> "write"
      [] step = "write" -> "cleanup"
      [] step = "cleanup" -> "entry"

remove_audio_raw_only(files, raw, wav) == files \ {raw}

\* run-transcription.py:291-292: os.remove(raw_audio); os.remove(clean_wav)
remove_audio(files, raw, wav) == (files \ {raw}) \ {wav}

(* inputs *)

LongTitle == [i \in 1..52 |-> IF i > 50 THEN "/" ELSE "x"]

FeedEntries ==
    { [id |-> "guid-0001", link |-> "https://example.org/ep/1", title |-> Chars("Ep 1"),
       published |-> "Mon, 01 Jan 2024", enclosures |-> <<"ep1.mp3">>],
      [id |-> Absent, link |-> "https://example.org/ep/1", title |-> Chars("Ep/1"),
       published |-> Absent, enclosures |-> <<"ep1b.mp3">>],
      [id |-> "guid-0001", link |-> "https://example.org/ep/2", title |-> Chars("Ep 1"),
       published |-> "Tue, 02 Jan 2024", enclosures |-> <<"ep2.mp3">>],
      [id |-> "", link |-> "https://example.org/ep/2", title |-> LongTitle,
       published |-> "Wed, 03 Jan 2024", enclosures |-> <<"ep3.mp3">>],
      [id |-> Absent, link |-> "https://example.org/ep/2", title |-> Chars("Ep 1"),
       published |-> Absent, enclosures |-> <<>>] }

Feeds == UNION { [1..n -> FeedEntries] : n \in 0..MaxEntries }

\* a transcript file left by an earlier run
OldFile == << <<"# ", <<"o", "l", "d">> >>, <<"Date: ", "unknown">>, <<"GUID: ", "old">>,
             <<"", "">>, <<"", transcribed("old", FALSE)>> >>

(* the script *)

InitMain ==
    /\ entries \in Feeds
    /\ diarize \in BOOLEAN
    /\ \E old \in SUBSET {fname_base(entries[i]) : i \in DOMAIN entries} :
          transcripts = [p \in old |-> OldFile]
    /\ audio_files = {}
    /\ entry_i = 0
    /\ transcript_m = <<>>
    /\ reached = <<>>
    /\ events = <<>>
    /\ pc_m = "entry"
    /\ embedIdle
    /\ chunkIdle
    /\ twsIdle
    /\ fixIdle

Entry == entries[entry_i]
TxtPath == fname_base(Entry)
RawAudio == <<fname_base(Entry), "mp3">>
CleanWav == <<fname_base(Entry), "wav">>
Event(op) == [op |-> op, entry |-> entry_i]

\* run-transcription.py:254-264: the loop takes the next entry; it skips an
\* entry whose transcript exists; entry.enclosures[0] of an entry without
\* enclosure raises IndexError
NextEntry ==
    /\ pc_m = "entry"
    /\ entry_i < Len(entries)
    /\ entry_i' = entry_i + 1
    /\ LET entry == entries[entry_i + 1]
           path == fname_base(entry)
       IN /\ reached' = Append(reached,
                 IF path \in DOMAIN transcripts THEN <<transcripts[path]>> ELSE <<>>)
          /\ IF path_exists(path, transcripts)
             THEN /\ pc_m' = "entry"
                  /\ events' = Append(events, [op |-> "skip", entry |-> entry_i + 1])
             ELSE IF entry.enclosures = <<>>
             THEN /\ pc_m' = "raised"
                  /\ events' = events
             ELSE /\ pc_m' = "download"
                  /\ events' = events
    /\ UNCHANGED <<entries, diarize, transcripts, audio_files, transcript_m,
                   embedVars, chunkVars, twsVars, fixVars>>

\* run-transcription.py:269
Download ==
    /\ pc_m = "download"
    /\ audio_files' = audio_files \cup {RawAudio}
    /\ events' = Append(events, Event("download"))
    /\ pc_m' = after("download")
    /\ UNCHANGED <<entries, diarize, transcripts, entry_i, transcript_m, reached,
                   embedVars, chunkVars, twsVars, fixVars>>

\* run-transcription.py:272
CleanAudio ==
    /\ pc_m = "clean"
    /\ audio_files' = audio_files \cup {CleanWav}
    /\ events' = Append(events, Event("clean"))
    /\ pc_m' = after("clean")
    /\ UNCHANGED <<entries, diarize, transcripts, entry_i, transcript_m, reached,
                   embedVars, chunkVars, twsVars, fixVars>>

\* run-transcription.py:274-281
Transcribe ==
    /\ pc_m = "transcribe"
    /\ transcript_m' = transcribed(Entry.enclosures[1], diarize)
    /\ events' = Append(events, Event("transcribe"))
    /\ pc_m' = after("transcribe")
    /\ UNCHANGED <<entries, diarize, transcripts, audio_files, entry_i, reached,
                   embedVars, chunkVars, twsVars, fixVars>>

\* run-transcription.py:283-288
WriteFile ==
    /\ pc_m = "write"
    /\ transcripts' = [p \in DOMAIN transcripts \cup {TxtPath} |->
                          IF p = TxtPath THEN transcript_file(Entry, transcript_m)
                          ELSE transcripts[p]]
    /\ events' = Append(events, Event("write"))
    /\ pc_m' = after("write")
    /\ UNCHANGED <<entries, diarize, audio_files, entry_i, transcript_m, reached,
                   embedVars, chunkVars, twsVars, fixVars>>

\* run-transcription.py:290-294
Cleanup ==
    /\ pc_m = "cleanup"
    /\ audio_files' = remove_audio(audio_files, RawAudio, CleanWav)
    /\ events' = Append(events, Event("remove"))
    /\ pc_m' = after("cleanup")
    /\ UNCHANGED <<entries, diarize, transcripts, entry_i, transcript_m, reached,
                   embedVars, chunkVars, twsVars, fixVars>>

\* requests, ffmpeg or a model raises: main() ends with the exception.  A
\* download that fails after open() and an ffmpeg that fails after it created
\* its output leave the file behind.
Raise ==
    /\ pc_m \in {"download", "clean", "transcribe"}
    /\ \E left \in SUBSET (IF pc_m = "download" THEN {RawAudio}
                           ELSE IF pc_m = "clean" THEN {CleanWav} ELSE {}) :
          audio_files' = audio_files \cup left
    /\ pc_m' = "raised"
    /\ UNCHANGED <<entries, diarize, transcripts, entry_i, transcript_m, reached, events,
                   embedVars, chunkVars, twsVars, fixVars>>

\* run-transcription.py:254: no entry is left
EndOfFeed ==
    /\ pc_m = "entry"
    /\ entry_i = Len(entries)
    /\ pc_m' = "done"
    /\ UNCHANGED <<entries, diarize, transcripts, audio_files, entry_i, transcript_m,
                   reached, events, embedVars, chunkVars, twsVars, fixVars>>

Next ==
    \/ NextEntry
    \/ Download
    \/ CleanAudio
    \/ Transcribe
    \/ WriteFile
    \/ Cleanup
    \/ Raise
    \/ EndOfFeed

Spec == InitMain /\ [][Next]_vars

-----------------------------------------------------------------------------
(* run-transcription.py: apply_corrections (the same in scripts/helpers.py) *)

Lowers == <<"a", "b", "c", "d", "e", "f", "g", "h", "i", "j", "k", "l", "m",
           "n", "o", "p", "q", "r", "s", "t", "u", "v", "w", "x", "y", "z">>
Uppers == <<"A", "B", "C", "D", "E", "F", "G", "H", "I", "J", "K", "L", "M",
           "N", "O", "P", "Q", "R", "S", "T", "U", "V", "W", "X", "Y", "Z">>

\* str.upper() and str.lower() of one character
upper(c) == IF \E i \in DOMAIN Lowers : Lowers[i] = c
            THEN Uppers[CHOOSE i \in DOMAIN Lowers : Lowers[i] = c] ELSE c
lower(c) == IF \E i \in DOMAIN Uppers : Uppers[i] = c
            THEN Lowers[CHOOSE i \in DOMAIN Uppers : Uppers[i] = c] ELSE c

\* str.capitalize(): the first character in upper case, the others in lower case
capitalize(t) == [i \in DOMAIN t |-> IF i = 1 THEN upper(t[i]) ELSE lower(t[i])]

\* str.replace(old, new) for a non-empty old: the occurrences of old from the
\* left, without overlap
RECURSIVE replace(_, _, _)
replace(t, old, new) ==
    IF Len(t) < Len(old) THEN t
    ELSE IF SubSeq(t, 1, Len(old)) = old
         THEN new \o replace(SubSeq(t, Len(old) + 1, Len(t)), old, new)
         ELSE <<Head(t)>> \o replace(Tail(t), old, new)

\* run-transcription.py:25-31, in the order .items() gives them
COMMON_FIXES ==
    << [wrong |-> <<"s", "m", "o", "k", "i", "n", "g", " ", "m", "i", "r", "r", "o", "r", "s">>,
        right |-> <<"s", "m", "o", "k", "e", " ", "a", "n", "d", " ", "m", "i", "r", "r", "o", "r", "s">>],
       [wrong |-> <<"j", "u", "r", "y", " ", "b", "o", "x">>,
        right |-> <<"j", "e", "w", "e", "l", "r", "y", " ", "b", "o", "x">>],
       [wrong |-> <<"b", "o", "o", "t", "e", "d", " ", "s", "l", "o", "w">>,
        right |-> <<"b", "o", "o", "t", "y", " ", "s", "w", "o", "l", "e">>],
       [wrong |-> <<"P", "r", "i", "s", "c", "i", "l", "l", "a">>,
        right |-> <<"F", "r", "i", "s", "e", "l", "l", "a">>] >>

\* run-transcription.py:37-38: the body of the for loop
fix(t, wrong, right) ==
    replace(replace(t, wrong, right), capitalize(wrong), capitalize(right))

(* inputs *)

\* pieces of transcript text: misheard phrases as Whisper may write them, and
\* text without any
Pieces ==
    { <<"s", "m", "o", "k", "i", "n", "g", " ", "m", "i", "r", "r", "o", "r", "s">>,
      <<"S", "m", "o", "k", "i", "n", "g", " ", "m", "i", "r", "r", "o", "r", "s">>,
      <<"j", "u", "r", "y", " ", "b", "o", "x">>,
      <<"J", "u", "r", "y", " ", "b", "o", "x">>,
      <<"J", "U", "R", "Y", " ", "B", "O", "X">>,
      <<"b", "o", "o", "t", "e", "d", " ", "s", "l", "o", "w">>,
      <<"P", "r", "i", "s", "c", "i", "l", "l", "a">>,
      <<"p", "r", "i", "s", "c", "i", "l", "l", "a">>,
      <<" ", "a", "n", "d", " ">> }

RECURSIVE Concat(_)
Concat(ps) == IF ps = <<>> THEN <<>> ELSE Head(ps) \o Concat(Tail(ps))

Texts == UNION { {Concat(ps) : ps \in [1..n -> Pieces]} : n \in 0..MaxPieces }

(* the function *)

InitFix ==
    /\ ac_arg \in Texts
    /\ ac_text = ac_arg
    /\ ac_i = 0
    /\ ac_pc = "loop"
    /\ embedIdle
    /\ chunkIdle
    /\ twsIdle
    /\ mainIdle

\* run-transcription.py:35-38: one iteration of the loop over COMMON_FIXES
FixNext ==
    /\ ac_pc = "loop"
    /\ ac_i < Len(COMMON_FIXES)
    /\ ac_text' = fix(ac_text, COMMON_FIXES[ac_i + 1].wrong, COMMON_FIXES[ac_i + 1].right)
    /\ ac_i' = ac_i + 1
    /\ UNCHANGED <<ac_arg, ac_pc, embedVars, chunkVars, twsVars, mainVars>>

\* run-transcription.py:39
FixReturn ==
    /\ ac_pc = "loop"
    /\ ac_i = Len(COMMON_FIXES)
    /\ ac_pc' = "returned"
    /\ UNCHANGED <<ac_arg, ac_text, ac_i, embedVars, chunkVars, twsVars, mainVars>>

NextFix ==
    \/ FixNext
    \/ FixReturn

SpecFix == InitFix /\ [][NextFix]_vars

-----------------------------------------------------------------------------
(* Claims about embed_new.py *)

\* every document passed to index.add_documents in this run, in order
RECURSIVE Flatten(_)
Flatten(calls) == IF calls = <<>> THEN <<>> ELSE Head(calls) \o Flatten(Tail(calls))

Uploaded == Flatten(add_calls)

RECURSIVE SumBytes(_)
SumBytes(b) == IF b = <<>> THEN 0 ELSE approx_json_size(Head(b)) + 1 + SumBytes(Tail(b))

\* C2: in one run no two documents passed to index.add_documents have the
\* same id.
C2_UniqueIds ==
    \A i, j \in DOMAIN Uploaded : i # j => Uploaded[i].id # Uploaded[j].id

\* C3: every batch passed to index.add_documents holds at least 1 and at
\* most MAX_BATCH_DOCS documents.
C3_BatchDocCount ==
    \A i \in DOMAIN add_calls :
        Len(add_calls[i]) >= 1 /\ Len(add_calls[i]) <= MAX_BATCH_DOCS

\* a finished run that uploaded a full batch, closed by the document cap,
\* and a shorter one
C3_Witness ==
    /\ pc_e = "done"
    /\ Len(add_calls) >= 2
    /\ Len(add_calls[1]) = MAX_BATCH_DOCS
    /\ 2 + SumBytes(add_calls[1]) + 1000 + 1 <= MAX_BATCH_BYTES
    /\ Len(add_calls[Len(add_calls)]) = 1

\* C4: the estimated serialized size of every batch passed to
\* index.add_documents, 2 plus approx_json_size(doc) + 1 for each of its
\* documents, never exceeds MAX_BATCH_BYTES.
C4_BatchBytes ==
    \A i \in DOMAIN add_calls : 2 + SumBytes(add_calls[i]) <= MAX_BATCH_BYTES

\* C5 as stated: no uploaded document has an id the index held when the run
\* started, and a second run over the same files uploads nothing.
C5_NoReupload ==
    /\ \A i \in DOMAIN Uploaded : Uploaded[i].id \notin index_start
    /\ run_no > 1 => add_calls = <<>>

\* C5 amended: no uploaded document has an id in existing_ids, the ids that
\* the get_documents call at startup returned; when that call succeeded and
\* the index held at most GET_DOCUMENTS_LIMIT documents, no uploaded document
\* has an id the index held at the start of the run and a second run over the
\* same files uploads nothing.
C5_SkipsFetchedIds ==
    /\ \A i \in DOMAIN Uploaded : Uploaded[i].id \notin existing_ids
    /\ fetch_ok =>
         /\ \A i \in DOMAIN Uploaded : Uploaded[i].id \notin index_start
         /\ run_no > 1 => add_calls = <<>>

\* a second run that fetched the whole index, found chunks in the files and
\* finished without an upload
C5_Witness ==
    /\ run_no = 2
    /\ pc_e = "done"
    /\ fetch_ok
    /\ existing_ids # {}
    /\ \E i \in DOMAIN txt_files : txt_files[i].words # <<>>
    /\ add_calls = <<>>

\* the documents of the chunks of a file, from generator state g and chunk
\* index idx on, whose id is not in ids
RECURSIVE FileDocs(_, _, _, _)
FileDocs(file, g, idx, ids) ==
    LET h == chunk_words_next(g, file.words, CHUNK_SIZE, OVERLAP_SIZE)
        id == make_doc_id(sanitize_id(splitext_root(file.filename)), idx)
    IN  IF h.state = "finished" THEN <<>>
        ELSE (IF id \in ids THEN <<>>
              ELSE <<make_doc(id, file.filename, idx,
                              chunk_yield(h, file.words, CHUNK_SIZE),
                              file.json_lens[idx + 1])>>)
             \o FileDocs(file, h, idx + 1, ids)

\* the documents of all chunks of the files from the i-th on whose id is not
\* in ids, file after file
RECURSIVE PreparedDocs(_, _)
PreparedDocs(i, ids) ==
    IF i > Len(txt_files) THEN <<>>
    ELSE FileDocs(txt_files[i], NewGen, 0, ids) \o PreparedDocs(i + 1, ids)

\* C17: when the script has completed, PRECOMPUTED_FILE holds exactly the
\* documents prepared in this run, those of the chunks whose id is not in
\* existing_ids, in the order of their preparation, and nothing that the file
\* held before.
C17_PrecomputedIsThisRun ==
    pc_e = "done" => precomputed = PreparedDocs(1, existing_ids)

\* a completed second run that skipped a chunk uploaded by the first run,
\* prepared another one, and left a file without any skipped document
C17_Witness ==
    /\ pc_e = "done"
    /\ run_no = 2
    /\ existing_ids \ PriorIds # {}
    /\ precomputed # <<>>
    /\ \A i \in DOMAIN precomputed : precomputed[i].id \notin existing_ids

-----------------------------------------------------------------------------
(* Claims about chunk_words *)

\* C6: every chunk (start, end, text) yielded by chunk_words with
\* chunk_size >= 1 satisfies 0 <= start < end <= len(words) and
\* end - start <= chunk_size, its text is words[start..end) joined by single
\* spaces, and the document built from it records word_start = start and
\* word_end = end.
C6_ChunkIsSlice ==
    \A i \in DOMAIN cw_out :
        LET start == cw_out[i][1]
            end == cw_out[i][2]
            text == cw_out[i][3]
        IN /\ 0 <= start /\ start < end /\ end <= Len(cw_words)
           /\ end - start <= cw_chunk_size
           /\ Len(text) = 2 * (end - start) - 1
           /\ \A k \in 1..(end - start) : text[2 * k - 1] = cw_words[start + k]
           /\ \A k \in 1..(end - start - 1) : text[2 * k] = " "
           /\ cw_docs[i].word_start = start
           /\ cw_docs[i].word_end = end
           /\ cw_docs[i].text = text

\* an exhausted generator that yielded several chunks, the last one cut
\* short by the end of the words
C6_Witness ==
    /\ cw_gen.state = "finished"
    /\ Len(cw_out) >= 2
    /\ cw_out[Len(cw_out)][2] = Len(cw_words)
    /\ cw_out[Len(cw_out)][2] - cw_out[Len(cw_out)][1] < cw_chunk_size

\* the word positions of the i-th yielded chunk
Positions(i) == {k \in 0..(Len(cw_words) - 1) : cw_out[i][1] <= k /\ k < cw_out[i][2]}

\* C14: for 0 <= overlap < chunk_size, a chunk yielded after another starts
\* overlap words before the end of that one and the two share exactly
\* overlap words; these are 20 words in the script's own call
\* chunk_words(words, CHUNK_SIZE, OVERLAP_SIZE).
C14_ConsecutiveOverlap ==
    cw_overlap < cw_chunk_size =>
        \A i \in 1..(Len(cw_out) - 1) :
            /\ cw_out[i + 1][1] = cw_out[i][2] - cw_overlap
            /\ Cardinality(Positions(i) \cap Positions(i + 1)) = cw_overlap
            /\ (cw_chunk_size = CHUNK_SIZE /\ cw_overlap = OVERLAP_SIZE) =>
                  Cardinality(Positions(i) \cap Positions(i + 1)) = 20

\* the script's own call, exhausted, on a text of three chunks of which the
\* last one is cut short
C14_Witness ==
    /\ cw_gen.state = "finished"
    /\ cw_chunk_size = CHUNK_SIZE
    /\ cw_overlap = OVERLAP_SIZE
    /\ Len(cw_out) = 3
    /\ cw_out[2][1] = CHUNK_SIZE - OVERLAP_SIZE
    /\ cw_out[3][2] - cw_out[3][1] > OVERLAP_SIZE
    /\ cw_out[3][2] - cw_out[3][1] < CHUNK_SIZE

\* C15: chunk_words comes to its end for every word list, every
\* chunk_size >= 1 and every overlap >= 0, also for overlap >= chunk_size, and
\* never yields more chunks than the list has words.
C15_Terminates ==
    /\ <>[](cw_gen.state = "finished")
    /\ [](Len(cw_out) <= Len(cw_words))

\* an exhausted generator with overlap >= chunk_size that advanced by one
\* word at a time and yielded as many chunks as there are words
C15_Witness ==
    /\ cw_gen.state = "finished"
    /\ cw_overlap >= cw_chunk_size
    /\ Len(cw_words) >= 2
    /\ Len(cw_out) = Len(cw_words)
    /\ \A i \in 1..(Len(cw_out) - 1) : cw_out[i + 1][1] = cw_out[i][1] + 1

-----------------------------------------------------------------------------
(* Claims about transcribe_with_speakers *)

\* the turns that overlap an aligned segment, by their place in itertracks
OverlappingTurns(seg) ==
    {j \in DOMAIN diarization :
        diarization[j].start <= seg.end /\ diarization[j].end >= seg.start}

SegLines == {k \in DOMAIN lines : lines[k].src.kind = "seg"}

\* C7: every aligned segment overlapped by at least one diarization turn is
\* labelled with the speaker of the first such turn in itertracks order,
\* whatever labels the other segments got.
C7_FirstOverlappingTurn ==
    \A k \in SegLines :
        LET ov == OverlappingTurns(aligned_segments[lines[k].src.i]) IN
        ov # {} =>
            lines[k].speaker = diarization[CHOOSE j \in ov : \A h \in ov : j <= h].speaker

\* a returned transcript with a segment that two turns overlap and a segment
\* that only the later of the two overlaps
C7_Witness ==
    /\ pc_t = "returned"
    /\ \E k, m \in SegLines :
         /\ Cardinality(OverlappingTurns(aligned_segments[lines[k].src.i])) >= 2
         /\ OverlappingTurns(aligned_segments[lines[m].src.i]) # {}
         /\ lines[m].speaker # lines[k].speaker

TsLeq(a, b) ==
    \/ a[1] < b[1]
    \/ a[1] = b[1] /\ a[2] < b[2]
    \/ a[1] = b[1] /\ a[2] = b[2] /\ a[3] <= b[3]

\* C8: the lines of the returned transcript are in non-decreasing order of
\* their start time stamp, with or without placeholder lines and whatever the
\* order in which the segments were appended.
C8_SortedByStart ==
    pc_t = "returned" =>
        \A i, j \in DOMAIN transcript :
            i < j => TsLeq(transcript[i].ts_start, transcript[j].ts_start)

\* a returned transcript in which a placeholder line stands before a segment
\* line and a segment that was appended later stands before an earlier one
C8_Witness ==
    /\ pc_t = "returned"
    /\ \E i, j \in DOMAIN transcript :
         /\ i < j
         /\ transcript[i].src.kind = "turn"
         /\ transcript[j].src.kind = "seg"
    /\ \E i, j \in DOMAIN transcript :
         /\ i < j
         /\ transcript[i].src.kind = "seg"
         /\ transcript[j].src.kind = "seg"
         /\ transcript[i].src.i > transcript[j].src.i

\* C9: the returned transcript has exactly one line for every transcription
\* segment, carrying the segment's stripped text; with fill_gaps off it has as
\* many lines as model.transcribe returned segments.
C9_WhisperTextKept ==
    pc_t = "returned" =>
        /\ \A i \in DOMAIN segments :
              Cardinality({k \in DOMAIN transcript :
                              /\ transcript[k].src.kind = "seg"
                              /\ transcript[k].text = strip(segments[i].text)}) = 1
        /\ ~fill_gaps => Len(transcript) = Len(segments)

\* the line appended for the i-th processed segment
SegLine(i) == lines[CHOOSE k \in DOMAIN lines : lines[k].src = [kind |-> "seg", i |-> i]]

\* a turn and the segment have a time stamp in common
HasTurn(seg) ==
    \E j \in DOMAIN diarization :
        diarization[j].start <= seg.end /\ diarization[j].end >= seg.start

\* the label of the latest of the first n processed segments that a turn
\* overlaps, "UNKNOWN" when there is none
RECURSIVE LastLabelled(_)
LastLabelled(n) ==
    IF n = 0 THEN "UNKNOWN"
    ELSE IF HasTurn(aligned_segments[n]) THEN SegLine(n).speaker
    ELSE LastLabelled(n - 1)

\* C12: a segment that no turn overlaps is labelled with the speaker of the
\* most recently processed segment that a turn overlaps, "UNKNOWN" when no
\* earlier processed segment has one; last_speaker is that speaker after
\* every iteration, so the fallback leaves it unchanged.
C12_FallbackSpeaker ==
    /\ \A i \in 1..seg_i :
          ~HasTurn(aligned_segments[i]) => SegLine(i).speaker = LastLabelled(i - 1)
    /\ last_speaker = LastLabelled(seg_i)

\* a returned transcript whose second processed segment no turn overlaps and
\* took the speaker of the first, which last_speaker still holds
C12_Witness ==
    /\ pc_t = "returned"
    /\ seg_i = 2
    /\ HasTurn(aligned_segments[1])
    /\ ~HasTurn(aligned_segments[2])
    /\ SegLine(2).speaker = SegLine(1).speaker
    /\ SegLine(2).speaker # "UNKNOWN"
    /\ last_speaker = SegLine(1).speaker

\* the k-th line is a placeholder line printed for the j-th turn
IsTurnLine(k, j) == lines[k].src = [kind |-> "turn", i |-> j]

\* the turn meets the closed range from the start of the first transcription
\* segment to the end of the last one
InWhisperRange(turn) ==
    turn.end >= segments[1].start /\ turn.start <= segments[Len(segments)].end

\* the turn and a transcription segment have a time stamp in common
OverlapsWhisper(turn) ==
    \E i \in DOMAIN segments :
        \E t \in Ticks :
            /\ turn.start <= t /\ t <= turn.end
            /\ segments[i].start <= t /\ t <= segments[i].end

\* C13: with fill_gaps on, once the gaps are filled there is exactly one
\* placeholder line for a turn that meets the closed range of the
\* transcription segments and overlaps none of them, and no placeholder line
\* for any other turn; with fill_gaps off there is no placeholder line.
C13_GapPlaceholders ==
    \A j \in DOMAIN diarization :
        IF /\ pc_t \in {"sort", "returned"}
           /\ fill_gaps
           /\ InWhisperRange(diarization[j])
           /\ ~OverlapsWhisper(diarization[j])
        THEN \E k \in DOMAIN lines :
                /\ IsTurnLine(k, j)
                /\ \A h \in DOMAIN lines : IsTurnLine(h, j) => h = k
                /\ lines[k].text = <<"[no Whisper transcript - diarization only]">>
                /\ lines[k].speaker = diarization[j].speaker
                /\ lines[k].ts_start = format_time(diarization[j].start)
                /\ lines[k].ts_end = format_time(diarization[j].end)
        ELSE \A k \in DOMAIN lines : ~IsTurnLine(k, j)

\* a returned transcript, fill_gaps on, with a placeholder line for a turn
\* between two segments and none for a turn that touches a segment at one
\* time stamp
C13_Witness ==
    /\ pc_t = "returned"
    /\ fill_gaps
    /\ Len(segments) = 2
    /\ \E j, h \in DOMAIN diarization :
         /\ \E k \in DOMAIN lines : IsTurnLine(k, j)
         /\ diarization[j].start > segments[1].end
         /\ diarization[j].end < segments[2].start
         /\ \A k \in DOMAIN lines : ~IsTurnLine(k, h)
         /\ \E i \in DOMAIN segments : diarization[h].start = segments[i].end

-----------------------------------------------------------------------------
(* Claims about main() of run-transcription.py *)

Before(p) == IF p > 1 THEN events[p - 1] ELSE [op |-> "none", entry |-> 0]

\* C1: for every entry that is not skipped the steps are download_audio,
\* clean_audio, transcription, write of the transcript, removal of the audio
\* files, in this order; the entries are taken in feed order, and no step of
\* an entry is made before the transcript of the entry processed before it is
\* written.
C1_StepOrder ==
    \A p \in DOMAIN events :
        LET ev == events[p] IN
        /\ ev.op = "clean" => Before(p) = [op |-> "download", entry |-> ev.entry]
        /\ ev.op = "transcribe" => Before(p) = [op |-> "clean", entry |-> ev.entry]
        /\ ev.op = "write" => Before(p) = [op |-> "transcribe", entry |-> ev.entry]
        /\ ev.op = "remove" => Before(p) = [op |-> "write", entry |-> ev.entry]
        /\ \A q \in 1..(p - 1) :
              /\ events[q].entry <= ev.entry
              /\ (ev.op = "download" /\ events[q].op # "skip") =>
                    /\ events[q].entry < ev.entry
                    /\ \E r \in 1..(p - 1) :
                          events[r] = [op |-> "write", entry |-> events[q].entry]

\* main() came to the end of a feed of which it processed two entries
C1_Witness ==
    /\ pc_m = "done"
    /\ \E p, q \in DOMAIN events :
         /\ p < q
         /\ events[p].op = "remove"
         /\ events[q].op = "remove"
    /\ audio_files = {}

\* C10: for an entry whose transcript path exists when main() reaches it,
\* main() downloads, normalizes and transcribes nothing and leaves the
\* transcript file as it is.
C10_SkipExisting ==
    \A i \in DOMAIN reached :
        reached[i] # <<>> =>
            /\ \A p \in DOMAIN events : events[p].entry = i => events[p].op = "skip"
            /\ <<fname_base(entries[i]), "mp3">> \notin audio_files
            /\ <<fname_base(entries[i]), "wav">> \notin audio_files
            /\ fname_base(entries[i]) \in DOMAIN transcripts
            /\ transcripts[fname_base(entries[i])] = reached[i][1]

\* main() came to the end of a feed in which it skipped an entry whose
\* transcript an earlier run had left and processed another entry
C10_Witness ==
    /\ pc_m = "done"
    /\ \E i \in DOMAIN reached : reached[i] = <<OldFile>>
    /\ \E p \in DOMAIN events : events[p].op = "write"

\* the entries for which main() wrote the transcript file
Written == {events[p].entry : p \in {q \in DOMAIN events : events[q].op = "write"}}

\* C11: for every processed entry, the file-name prefix is hash_guid of the
\* guid that the "GUID: " line shows, the entry's id when it has a non-empty
\* one and its link otherwise; the file starts with the title line, the
\* "Date: " line ("unknown" for an entry without published date) and the
\* "GUID: " line; the identifier has 12 characters and two entries with the
\* same guid get the same one.
C11_GuidHeader ==
    \A i \in Written :
        LET e == entries[i]
            guid == IF e.id # Absent /\ e.id # "" THEN e.id ELSE e.link
            file == transcripts[fname_base(e)]
        IN /\ fname_base(e) \in DOMAIN transcripts
           /\ Len(file) >= 3
           /\ file[1] = <<"# ", e.title>>
           /\ file[2] = <<"Date: ", IF e.published = Absent THEN "unknown" ELSE e.published>>
           /\ file[3] = <<"GUID: ", guid>>
           /\ fname_base(e).id = hash_guid(file[3][2])
           /\ Len(fname_base(e).id) = 12
           /\ \A j \in DOMAIN entries :
                 entry_guid(entries[j]) = guid => fname_base(entries[j]).id = fname_base(e).id

\* main() came to the end of a feed of which it processed an entry with an id
\* and an entry without id and without published date
C11_Witness ==
    /\ pc_m = "done"
    /\ \E i, j \in Written :
         /\ entries[i].id = "guid-0001"
         /\ entries[j].id = Absent
         /\ entries[j].published = Absent
         /\ transcripts[fname_base(entries[j])][2] = <<"Date: ", "unknown">>

\* the audio files main() created: the downloads and the outputs of ffmpeg
Created ==
    {<<fname_base(entries[events[p].entry]), "mp3">> :
        p \in {q \in DOMAIN events : events[q].op = "download"}}
    \cup
    {<<fname_base(entries[events[p].entry]), "wav">> :
        p \in {q \in DOMAIN events : events[q].op = "clean"}}

\* C16: once main() has processed an entry up to the removal of its audio
\* files, neither the entry's .mp3 nor its .wav is in the output directory;
\* when main() ends normally, no audio file that it created is left.
C16_NoAudioLeft ==
    /\ \A p \in DOMAIN events :
          events[p].op = "remove" =>
              /\ <<fname_base(entries[events[p].entry]), "mp3">> \notin audio_files
              /\ <<fname_base(entries[events[p].entry]), "wav">> \notin audio_files
    /\ pc_m = "done" => Created \cap audio_files = {}

\* main() came to the end of a feed of which it processed one entry, for
\* which it created both audio files, and skipped the other
C16_Witness ==
    /\ pc_m = "done"
    /\ Cardinality(Created) = 2
    /\ \E p \in DOMAIN events : events[p].op = "remove"
    /\ \E p \in DOMAIN events : events[p].op = "skip"
    /\ audio_files = {}

-----------------------------------------------------------------------------
(* Claims about apply_corrections *)

lower_all(t) == [i \in DOMAIN t |-> lower(t[i])]

\* t holds sub as a substring
Contains(t, sub) ==
    \E k \in 0..(Len(t) - Len(sub)) : SubSeq(t, k + 1, k + Len(sub)) = sub

\* C18: the text that apply_corrections returns holds no key of COMMON_FIXES
\* in any letter casing.
C18_NoMisheardPhraseLeft ==
    ac_pc = "returned" =>
        \A f \in DOMAIN COMMON_FIXES :
            ~Contains(lower_all(ac_text), lower_all(COMMON_FIXES[f].wrong))

====
